---- MODULE Spec2Model ----
(***************************************************************************)
(* PROMETHEE II core (rs-promethee-core): construction of a problem from   *)
(* an alternative table, preference functions and weights; the fast and    *)
(* slow unicriterion flow algorithms; solve(); ranked_alts().              *)
(* The operations on an alternative table (directions, set, shift, swap),  *)
(* shift_eval() and normalisation() have state machines of their own.      *)
(*                                                                         *)
(* Conventions of the model                                                *)
(*  - f64 values are exact rationals <<num, den>> in lowest terms with     *)
(*    den > 0; the non-finite f64 values are <<1,0>> (+inf), <<-1,0>>      *)
(*    (-inf) and <<0,0>> (NaN).  Rounding and signed zeros are not         *)
(*    modelled.  Performances, thresholds and input weights are drawn      *)
(*    from the integers.                                                   *)
(*  - Rust indices 0..n-1 are the TLA+ indices 1..n (alternative i of the  *)
(*    model is alternative i-1 of the code, criterion k is criterion k-1). *)
(***************************************************************************)
EXTENDS Integers, Sequences, FiniteSets, TLC

VARIABLES
    pc,                     \* "start", "built", "solved", "ranked", "panic"
    panic_msg,              \* message of the panic that aborted the program
    weights_arg,            \* the weights argument handed to PrometheeProblem::new
    n, q,                   \* PrometheeProblem.n, PrometheeProblem.q
    alt_table,              \* AlternativeTable.alternatives (performances only)
    criteria_direction,     \* AlternativeTable.criteria_direction
    argsorted_eval_matrix,  \* PrometheeProblem.argsorted_eval_matrix
    generalized_criteria,   \* PrometheeProblem.generalized_criteria
    weights,                \* PrometheeProblem.weights (normalized)
    result,                 \* the Promethee2Result of the last solve()
    ranked,                 \* the vector returned by the last ranked_alts()
    norm                    \* a call of GeneralizedCriterion::normalisation: [gc, d, out, done]

vars == <<pc, panic_msg, weights_arg, n, q, alt_table, criteria_direction,
          argsorted_eval_matrix, generalized_criteria, weights, result, ranked,
          norm>>

---------------------------------------------------------------------------
(* Bounds of the model *)

\* largest number of alternatives in an input table
MaxN == 3
\* performances of a table that is mutated stay within -MaxPerf..MaxPerf
MaxPerf == 1
\* performances of the single-criterion inputs are 0..MaxVal
MaxVal == 2
\* thresholds q, p of the single-criterion inputs are 0..MaxThr
MaxThr == 2

---------------------------------------------------------------------------
(* f64 arithmetic on exact rationals *)

Abs(x) == IF x < 0 THEN -x ELSE x

Sign(x) == IF x < 0 THEN -1 ELSE IF x > 0 THEN 1 ELSE 0

RECURSIVE Gcd(_, _)
Gcd(a, b) == IF b = 0 THEN a ELSE Gcd(b, a % b)

NaN == <<0, 0>>
Inf(s) == <<s, 0>>

\* the f64 a/b for integers a, b (b = 0 gives an infinity or NaN)
Rat(a, b) ==
    IF b = 0 THEN Inf(Sign(a))
    ELSE LET g == Gcd(Abs(a), Abs(b))
         IN  <<(Sign(b) * a) \div g, Abs(b) \div g>>

R(i) == <<i, 1>>

IsFinite(x) == x[2] # 0
IsNaN(x) == x = NaN

RNeg(x) == <<-x[1], x[2]>>

RAdd(x, y) ==
    IF IsNaN(x) \/ IsNaN(y) THEN NaN
    ELSE IF ~IsFinite(x) /\ ~IsFinite(y) THEN (IF x = y THEN x ELSE NaN)
    ELSE IF ~IsFinite(x) THEN x
    ELSE IF ~IsFinite(y) THEN y
    ELSE Rat(x[1] * y[2] + y[1] * x[2], x[2] * y[2])

RSub(x, y) == RAdd(x, RNeg(y))

RMul(x, y) ==
    IF IsNaN(x) \/ IsNaN(y) THEN NaN
    ELSE IF ~IsFinite(x) \/ ~IsFinite(y)
         THEN Inf(Sign(x[1]) * Sign(y[1]))      \* inf * 0 = NaN = Inf(0)
    ELSE Rat(x[1] * y[1], x[2] * y[2])

RDiv(x, y) ==
    IF IsNaN(x) \/ IsNaN(y) THEN NaN
    ELSE IF ~IsFinite(x) THEN (IF IsFinite(y) THEN Inf(x[1] * (IF y[1] < 0 THEN -1 ELSE 1)) ELSE NaN)
    ELSE IF ~IsFinite(y) THEN R(0)
    ELSE IF y[1] = 0 THEN Inf(Sign(x[1]))        \* 0/0 = NaN = Inf(0)
    ELSE Rat(x[1] * y[2], x[2] * y[1])

\* x < y on f64 (false as soon as one side is NaN)
RLt(x, y) ==
    IF IsNaN(x) \/ IsNaN(y) THEN FALSE
    ELSE IF ~IsFinite(x) THEN x[1] < 0 /\ y # x
    ELSE IF ~IsFinite(y) THEN y[1] > 0
    ELSE x[1] * y[2] < y[1] * x[2]

RLe(x, y) == ~IsNaN(x) /\ ~IsNaN(y) /\ ~RLt(y, x)

\* the sum of the first k entries of s, added from the left
RECURSIVE RSumTo(_, _)
RSumTo(s, k) == IF k = 0 THEN R(0) ELSE RAdd(RSumTo(s, k - 1), s[k])

RSum(s) == RSumTo(s, Len(s))

---------------------------------------------------------------------------
(* generalized_criterion.rs *)

Usual == [type |-> "Usual", q |-> 0, p |-> 0]
UShape(p) == [type |-> "UShape", q |-> 0, p |-> p]
VShape(p) == [type |-> "VShape", q |-> 0, p |-> p]
Linear(q0, p) == [type |-> "Linear", q |-> q0, p |-> p]

\* normalize_linear without its first branch
normalize_linear_unguarded(q0, p, d_ij) ==
    IF d_ij < p THEN Rat(d_ij - q0, p - q0)
    ELSE R(1)

normalize_linear(q0, p, d_ij) ==
    IF d_ij < q0 THEN R(0)
    ELSE IF d_ij < p THEN Rat(d_ij - q0, p - q0)
    ELSE R(1)

normalize_v_shape(p, d_ij) ==
    IF d_ij < 0 THEN R(0)
    ELSE IF d_ij < p THEN Rat(d_ij, p)
    ELSE R(1)

normalisation(gc, d_ij) ==
    CASE gc.type = "VShape" -> normalize_v_shape(gc.p, d_ij)
      [] gc.type = "Linear" -> normalize_linear(gc.q, gc.p, d_ij)
      [] gc.type = "Usual"  -> (IF d_ij > 0 THEN R(1) ELSE R(0))
      [] gc.type = "UShape" -> (IF d_ij < gc.p THEN R(0) ELSE R(1))

\* from_params(ftype, q, p): a criterion, or the panic that aborts the call
from_params(ftype, q0, p) ==
    CASE ftype = "Usual"   -> [ok |-> TRUE, gc |-> Usual, msg |-> ""]
      [] ftype = "U-Shape" -> [ok |-> TRUE, gc |-> UShape(p), msg |-> ""]
      [] ftype = "V-Shape" -> [ok |-> TRUE, gc |-> VShape(p), msg |-> ""]
      [] ftype = "Linear"  -> [ok |-> TRUE, gc |-> Linear(q0, p), msg |-> ""]
      [] ftype \in {"Level", "Gaussian"} ->
                              [ok |-> FALSE, gc |-> Usual, msg |-> "not implemented"]
      [] OTHER             -> [ok |-> FALSE, gc |-> Usual, msg |-> "Wrong type"]

---------------------------------------------------------------------------
(* alternatives.rs *)

\* AlternativeTable::new(alternatives): the table, or the panic that aborts it
AlternativeTable_new(alternatives) ==
    IF alternatives = <<>>
    THEN [ok |-> FALSE, msg |-> "Empty table of alternatives",
          alternatives |-> <<>>, criteria_direction |-> <<>>]
    ELSE IF \E i \in 1..Len(alternatives) : Len(alternatives[i]) # Len(alternatives[1])
    THEN [ok |-> FALSE, msg |-> "Inconsistent number of evaluations for alternatives",
          alternatives |-> <<>>, criteria_direction |-> <<>>]
    ELSE [ok |-> TRUE, msg |-> "",
          alternatives |-> alternatives,
          criteria_direction |-> [k \in 1..Len(alternatives[1]) |-> "Max"]]

\* AlternativeTable::from_matrix(matrix): names the rows and calls new
AlternativeTable_from_matrix(matrix) ==
    IF matrix = <<>> \/ matrix[1] = <<>>
    THEN [ok |-> FALSE, msg |-> "Matrix must not be empty",
          alternatives |-> <<>>, criteria_direction |-> <<>>]
    ELSE IF \E i \in 1..Len(matrix) : Len(matrix[i]) # Len(matrix[1])
    THEN [ok |-> FALSE, msg |-> "Inconsistent number of criteria across alternatives",
          alternatives |-> <<>>, criteria_direction |-> <<>>]
    ELSE AlternativeTable_new(matrix)

\* AlternativeTable::n / AlternativeTable::q
Table_n(alternatives) == Len(alternatives)
Table_q(alternatives) == Len(alternatives[1])

\* AlternativeTable::criterion(k): the column of criterion k
criterion(alternatives, k) == [i \in 1..Len(alternatives) |-> alternatives[i][k]]

---------------------------------------------------------------------------
(* alternatives.rs: the operations on a table *)

\* a table the operations below are applied to, and the panic of Vec indexing
Table(alternatives, dirs) ==
    [ok |-> TRUE, msg |-> "", alternatives |-> alternatives, criteria_direction |-> dirs]

TablePanic(msg) ==
    [ok |-> FALSE, msg |-> msg, alternatives |-> <<>>, criteria_direction |-> <<>>]

\* OptimizationDirection: the other direction
Toggle(dir) == IF dir = "Min" THEN "Max" ELSE "Min"

\* AlternativeTable::with_criteria_directions(criteria_direction)
with_criteria_directions(alternatives, dirs, criteria_direction_arg) ==
    Table(alternatives, criteria_direction_arg)

\* AlternativeTable::set_criterion_direction(k, direction)
set_criterion_direction(alternatives, dirs, k, direction) ==
    IF k \notin 1..Len(dirs) THEN TablePanic("index out of bounds")
    ELSE Table(alternatives, [dirs EXCEPT ![k] = direction])

\* swap_criteria_direction that records the new direction and keeps the column
swap_criteria_direction_keep_column(alternatives, dirs, k) ==
    IF k \notin 1..Len(dirs) THEN TablePanic("Invalid criterion index")
    ELSE IF \E i \in 1..Len(alternatives) : k \notin 1..Len(alternatives[i])
    THEN TablePanic("called Option::unwrap() on a None value")
    ELSE Table(alternatives, [dirs EXCEPT ![k] = Toggle(@)])

\* AlternativeTable::swap_criteria_direction(k)
swap_criteria_direction(alternatives, dirs, k) ==
    IF k \notin 1..Len(dirs) THEN TablePanic("Invalid criterion index")
    ELSE IF \E i \in 1..Len(alternatives) : k \notin 1..Len(alternatives[i])
    THEN TablePanic("called Option::unwrap() on a None value")
    ELSE Table([i \in 1..Len(alternatives) |-> [alternatives[i] EXCEPT ![k] = 0 - @]],
               [dirs EXCEPT ![k] = Toggle(@)])

\* set_performance that pushes the value when k is one past the last criterion
set_performance_growing(alternatives, dirs, i, k, val) ==
    IF i \notin 1..Len(alternatives) THEN Table(alternatives, dirs)
    ELSE IF k = Len(alternatives[i]) + 1
    THEN Table([alternatives EXCEPT ![i] = Append(@, val)], dirs)
    ELSE IF k \notin 1..Len(alternatives[i]) THEN TablePanic("index out of bounds")
    ELSE Table([alternatives EXCEPT ![i][k] = val], dirs)

\* AlternativeTable::set_performance(i, k, val)
set_performance(alternatives, dirs, i, k, val) ==
    IF i \notin 1..Len(alternatives) THEN Table(alternatives, dirs)
    ELSE IF k \notin 1..Len(alternatives[i]) THEN TablePanic("index out of bounds")
    ELSE Table([alternatives EXCEPT ![i][k] = val], dirs)

\* shift_performance that shifts criterion k of every alternative
shift_performance_of_all(alternatives, dirs, i, k, shift) ==
    IF i \notin 1..Len(alternatives) THEN Table(alternatives, dirs)
    ELSE IF k \notin 1..Len(alternatives[i])
    THEN TablePanic("called Option::unwrap() on a None value")
    ELSE Table([j \in 1..Len(alternatives) |-> [alternatives[j] EXCEPT ![k] = @ + shift]],
               dirs)

\* AlternativeTable::shift_performance(i, k, shift)
shift_performance(alternatives, dirs, i, k, shift) ==
    IF i \notin 1..Len(alternatives) THEN Table(alternatives, dirs)
    ELSE IF k \notin 1..Len(alternatives[i])
    THEN TablePanic("called Option::unwrap() on a None value")
    ELSE Table([alternatives EXCEPT ![i][k] = @ + shift], dirs)

---------------------------------------------------------------------------
(* lib.rs: the sort cache *)

None == [some |-> FALSE, v |-> <<>>]
Some(v) == [some |-> TRUE, v |-> v]

RECURSIVE PermsOf(_)
PermsOf(S) ==
    IF S = {} THEN {<<>>}
    ELSE UNION {{Append(s, x) : s \in PermsOf(S \ {x})} : x \in S}

\* sort_unstable_by on (0..n) with the comparison of the performances fks: the
\* order of equal performances is not specified, so every ascending
\* arrangement is a possible outcome
SortUnstableBy(fks) ==
    {s \in PermsOf(DOMAIN fks) :
        \A a \in 1..(Len(s) - 1) : fks[s[a]] <= fks[s[a + 1]]}

\* the match of PrometheeProblem::new on one criterion: is the sort cache built?
NeedsArgsort(gc) == gc.type \in {"Linear", "VShape"}

\* the criteria on which the match of PrometheeProblem::new ends in unimplemented!()
NotImplemented(gc) == gc.type \notin {"Linear", "VShape", "Usual"}

\* the possible values of argsorted_eval_matrix for criteria 1..k
RECURSIVE ArgsortedEvalMatrices(_, _, _)
ArgsortedEvalMatrices(alternatives, gcs, k) ==
    IF k = 0 THEN {<<>>}
    ELSE LET entries == IF NeedsArgsort(gcs[k])
                        THEN {Some(s) : s \in SortUnstableBy(criterion(alternatives, k))}
                        ELSE {None}
         IN  {Append(m, e) : m \in ArgsortedEvalMatrices(alternatives, gcs, k - 1),
                             e \in entries}

\* argsort_evals that leaves the cache as it is
argsort_evals_skipped(alternatives, argsorted, k) == {argsorted}

\* argsort_evals(k): the possible values of argsorted_eval_matrix after the
\* call, whatever the preference function of criterion k is
argsort_evals(alternatives, argsorted, k) ==
    {[argsorted EXCEPT ![k] = Some(s)] : s \in SortUnstableBy(criterion(alternatives, k))}

---------------------------------------------------------------------------
(* lib.rs: the fast algorithm *)

\* "Remove elements leaving window" of fast_pos_unicriterion_flow
RECURSIVE PosLeaveWindow(_, _, _)
PosLeaveWindow(fks, low, st) ==
    IF st.w # <<>> /\ fks[Head(st.w)] <= low
    THEN PosLeaveWindow(fks, low,
            [st EXCEPT !.sum = @ - fks[Head(st.w)], !.w = Tail(@), !.card = @ + 1])
    ELSE st

\* "Remove elements leaving the right part" of fast_pos_unicriterion_flow
RECURSIVE PosLeaveRight(_, _, _, _)
PosLeaveRight(fks, low, up, st) ==
    IF st.r # <<>> /\ fks[Head(st.r)] <= up
    THEN LET x == Head(st.r)
         IN  IF fks[x] >= low
             THEN PosLeaveRight(fks, low, up,
                    [st EXCEPT !.r = Tail(@), !.w = Append(@, x), !.sum = @ + fks[x]])
             ELSE PosLeaveRight(fks, low, up,
                    [st EXCEPT !.r = Tail(@), !.card = @ + 1])
    ELSE st

\* the value stored in positive_flow[idx]
PosFlowValue(nn, q0, p, f, st) ==
    LET const_fact == IF p # q0 THEN Rat(f - q0, p - q0) ELSE R(0)
        last_term  == IF p # q0 THEN Rat(-st.sum, p - q0) ELSE R(0)
    IN  RMul(RDiv(R(1), R(nn - 1)),
             RAdd(RAdd(R(st.card), RMul(R(Len(st.w)), const_fact)), last_term))

\* one iteration of the loop of fast_pos_unicriterion_flow
PosIteration(fks, nn, q0, p, idx, st) ==
    LET low == fks[idx] - p
        up  == fks[idx] - q0
        s2  == PosLeaveRight(fks, low, up, PosLeaveWindow(fks, low, st))
    IN  [s2 EXCEPT !.flow[idx] = PosFlowValue(nn, q0, p, fks[idx], s2)]

RECURSIVE PosLoop(_, _, _, _, _, _)
PosLoop(fks, nn, q0, p, order, st) ==
    IF order = <<>> THEN st.flow
    ELSE PosLoop(fks, nn, q0, p, Tail(order),
                 PosIteration(fks, nn, q0, p, Head(order), st))

fast_pos_unicriterion_flow(fks, nn, q0, p, argsorted_fks) ==
    PosLoop(fks, nn, q0, p, argsorted_fks,
            [w |-> <<>>, r |-> argsorted_fks, card |-> 0, sum |-> 0,
             flow |-> [i \in 1..nn |-> R(0)]])

Last(s) == s[Len(s)]
Front(s) == SubSeq(s, 1, Len(s) - 1)

RECURSIVE Reverse(_)
Reverse(s) == IF s = <<>> THEN <<>> ELSE Append(Reverse(Tail(s)), Head(s))

\* "Remove elements leaving window" of fast_neg_unicriterion_flow
RECURSIVE NegLeaveWindow(_, _, _)
NegLeaveWindow(fks, up, st) ==
    IF st.w # <<>> /\ fks[Last(st.w)] >= up
    THEN NegLeaveWindow(fks, up,
            [st EXCEPT !.sum = @ - fks[Last(st.w)], !.w = Front(@), !.card = @ + 1])
    ELSE st

\* "Remove elements leaving the left part" of fast_neg_unicriterion_flow
RECURSIVE NegLeaveLeft(_, _, _, _)
NegLeaveLeft(fks, low, up, st) ==
    IF st.l # <<>> /\ fks[Last(st.l)] >= low
    THEN LET x == Last(st.l)
         IN  IF fks[x] <= up
             THEN NegLeaveLeft(fks, low, up,
                    [st EXCEPT !.l = Front(@), !.w = <<x>> \o @, !.sum = @ + fks[x]])
             ELSE NegLeaveLeft(fks, low, up,
                    [st EXCEPT !.l = Front(@), !.card = @ + 1])
    ELSE st

\* the value stored in negative_flows[idx]
NegFlowValue(nn, q0, p, f, st) ==
    LET const_fact == IF p # q0 THEN Rat(f + q0, p - q0) ELSE R(0)
        last_term  == IF p # q0 THEN Rat(st.sum, p - q0) ELSE R(0)
    IN  RMul(RDiv(R(1), R(nn - 1)),
             RAdd(RSub(R(st.card), RMul(R(Len(st.w)), const_fact)), last_term))

\* one iteration of the loop of fast_neg_unicriterion_flow
NegIteration(fks, nn, q0, p, idx, st) ==
    LET low == fks[idx] + q0
        up  == fks[idx] + p
        s2  == NegLeaveLeft(fks, low, up, NegLeaveWindow(fks, up, st))
    IN  [s2 EXCEPT !.flow[idx] = NegFlowValue(nn, q0, p, fks[idx], s2)]

RECURSIVE NegLoop(_, _, _, _, _, _)
NegLoop(fks, nn, q0, p, order, st) ==
    IF order = <<>> THEN st.flow
    ELSE NegLoop(fks, nn, q0, p, Tail(order),
                 NegIteration(fks, nn, q0, p, Head(order), st))

fast_neg_unicriterion_flow(fks, nn, q0, p, argsorted_fks) ==
    NegLoop(fks, nn, q0, p, Reverse(argsorted_fks),
            [w |-> <<>>, l |-> argsorted_fks, card |-> 0, sum |-> 0,
             flow |-> [i \in 1..nn |-> R(0)]])

\* fast_unicriterion_flows(k) on the column fks, criterion gc and cache entry
fast_unicriterion_flows(fks, nn, gc, argsorted_fks) ==
    <<fast_pos_unicriterion_flow(fks, nn, gc.q, gc.p, argsorted_fks),
      fast_neg_unicriterion_flow(fks, nn, gc.q, gc.p, argsorted_fks)>>

---------------------------------------------------------------------------
(* lib.rs: the slow algorithm *)

\* the matrix of differences built by unicriterion_flows
dist_mat(fks) == [i \in DOMAIN fks |-> [j \in DOMAIN fks |-> fks[i] - fks[j]]]

\* the fold of slow_unicriterion_flows over one row, entries 1..j
RECURSIVE SlowFold(_, _, _)
SlowFold(di, gc, j) ==
    IF j = 0 THEN <<R(0), R(0)>>
    ELSE LET acc == SlowFold(di, gc, j - 1)
         IN  <<RAdd(acc[1], normalisation(gc, di[j])),
               RAdd(acc[2], normalisation(gc, -di[j]))>>

slow_unicriterion_flows(dm, nn, gc) ==
    LET row(i) == SlowFold(dm[i], gc, Len(dm[i]))
    IN  <<[i \in DOMAIN dm |-> RDiv(row(i)[1], R(nn - 1))],
          [i \in DOMAIN dm |-> RDiv(row(i)[2], R(nn - 1))]>>

\* the dispatch of unicriterion_flows(k)
UsesFastAlgorithm(gc) == gc.type \in {"VShape", "Linear"}

unicriterion_flows(alternatives, nn, gcs, argsorted, k) ==
    IF UsesFastAlgorithm(gcs[k])
    THEN fast_unicriterion_flows(criterion(alternatives, k), nn, gcs[k], argsorted[k].v)
    ELSE slow_unicriterion_flows(dist_mat(criterion(alternatives, k)), nn, gcs[k])

---------------------------------------------------------------------------
(* lib.rs: solve *)

\* Accumulate with the weight of the criterion left out
AccumulateUnweighted(flows, w_k, unicriterion_flow) ==
    [i \in DOMAIN flows |-> RAdd(flows[i], unicriterion_flow[i])]

\* the inner loop of solve: flows[i] += w_k * unicriterion_flow[i]
Accumulate(flows, w_k, unicriterion_flow) ==
    [i \in DOMAIN flows |-> RAdd(flows[i], RMul(w_k, unicriterion_flow[i]))]

\* the body of the loop of solve for criterion k
SolveIteration(alternatives, nn, gcs, argsorted, w, k, res) ==
    LET uf == unicriterion_flows(alternatives, nn, gcs, argsorted, k)
    IN  [positive_flows |-> Accumulate(res.positive_flows, w[k], uf[1]),
         unicrit_positive_flows |-> Append(res.unicrit_positive_flows, uf[1]),
         negative_flows |-> Accumulate(res.negative_flows, w[k], uf[2]),
         unicrit_negative_flows |-> Append(res.unicrit_negative_flows, uf[2])]

\* the loop of solve over the criteria k..qq
RECURSIVE SolveLoop(_, _, _, _, _, _, _, _)
SolveLoop(alternatives, nn, qq, gcs, argsorted, w, k, res) ==
    IF k > qq THEN res
    ELSE SolveLoop(alternatives, nn, qq, gcs, argsorted, w, k + 1,
                   SolveIteration(alternatives, nn, gcs, argsorted, w, k, res))

solve(alternatives, nn, qq, gcs, argsorted, w) ==
    SolveLoop(alternatives, nn, qq, gcs, argsorted, w, 1,
              [positive_flows |-> [i \in 1..nn |-> R(0)],
               unicrit_positive_flows |-> <<>>,
               negative_flows |-> [i \in 1..nn |-> R(0)],
               unicrit_negative_flows |-> <<>>])

NoResult ==
    [positive_flows |-> <<>>, unicrit_positive_flows |-> <<>>,
     negative_flows |-> <<>>, unicrit_negative_flows |-> <<>>]

---------------------------------------------------------------------------
(* lib.rs: Promethee2Result *)

net_flows(res) ==
    [i \in DOMAIN res.positive_flows |-> RSub(res.positive_flows[i], res.negative_flows[i])]

\* InsertStable as an unstable sort may do it: in front of the equal elements
RECURSIVE InsertBeforeEqual(_, _, _)
InsertBeforeEqual(sorted, i, flows) ==
    IF sorted = <<>> THEN <<i>>
    ELSE IF RLe(flows[i], flows[Last(sorted)])
         THEN Append(InsertBeforeEqual(Front(sorted), i, flows), Last(sorted))
         ELSE Append(sorted, i)

\* the position of the pair (i, flows[i]) in a stably sorted vector: it goes
\* behind every element that does not compare greater
RECURSIVE InsertStable(_, _, _)
InsertStable(sorted, i, flows) ==
    IF sorted = <<>> THEN <<i>>
    ELSE IF RLt(flows[i], flows[Last(sorted)])
         THEN Append(InsertStable(Front(sorted), i, flows), Last(sorted))
         ELSE Append(sorted, i)

\* sorted_by(partial_cmp) of the enumerated net flows 1..m, mapped to the indices
RECURSIVE SortedBy(_, _)
SortedBy(flows, m) ==
    IF m = 0 THEN <<>> ELSE InsertStable(SortedBy(flows, m - 1), m, flows)

\* partial_cmp(..).unwrap() panics when the sort compares a NaN
RankedAltsPanics(res) ==
    LET nf == net_flows(res)
    IN  Len(nf) >= 2 /\ \E i \in DOMAIN nf : IsNaN(nf[i])

\* ranked_alts without the final rev()
ranked_alts_ascending(res) == SortedBy(net_flows(res), Len(res.positive_flows))

ranked_alts(res) == Reverse(SortedBy(net_flows(res), Len(res.positive_flows)))

---------------------------------------------------------------------------
(* lib.rs: PrometheeProblem::new *)

\* NormalizeWeights dividing by the number of weights instead of their sum
NormalizeWeightsByCount(w) == [k \in DOMAIN w |-> RDiv(R(w[k]), R(Len(w)))]

\* the normalization of the weights
NormalizeWeights(w) == [k \in DOMAIN w |-> RDiv(R(w[k]), RSum([j \in DOMAIN w |-> R(w[j])]))]

\* WeightsCountOk with the check left out
WeightsCountUnchecked(w, qq) == TRUE

\* the two input checks of PrometheeProblem::new
CriteriaCountOk(gcs, qq) == Len(gcs) = qq

WeightsCountOk(w, qq) == Len(w) = qq

Panic(msg) ==
    /\ pc' = "panic"
    /\ panic_msg' = msg
    /\ UNCHANGED <<weights_arg, n, q, alt_table, criteria_direction,
                   argsorted_eval_matrix, generalized_criteria, weights, result, ranked,
                   norm>>

\* PrometheeProblem::new(table, gcs, w) on a table AlternativeTable::new accepted
PrometheeProblem_new(table, gcs, w) ==
    LET nn == Table_n(table.alternatives)
        qq == Table_q(table.alternatives)
    IN  IF ~CriteriaCountOk(gcs, qq)
        THEN Panic("Wrong number of generalized criteria given")
        ELSE IF ~WeightsCountOk(w, qq)
        THEN Panic("Wrong number of weights given")
        ELSE IF \E k \in 1..Len(gcs) : NotImplemented(gcs[k])
        THEN Panic("not implemented: Not implemented for this criterion")
        ELSE /\ pc' = "built"
             /\ weights_arg' = w
             /\ n' = nn
             /\ q' = qq
             /\ alt_table' = table.alternatives
             /\ criteria_direction' = table.criteria_direction
             /\ argsorted_eval_matrix' \in
                    ArgsortedEvalMatrices(table.alternatives, gcs, Len(gcs))
             /\ generalized_criteria' = gcs
             /\ weights' = NormalizeWeights(w)
             /\ UNCHANGED <<panic_msg, result, ranked, norm>>

\* A caller that builds the table with AlternativeTable::new or from_matrix,
\* each preference function with from_params and then the problem, as
\* from_excel does
Construct(alternatives, via_matrix, params, w) ==
    LET table == IF via_matrix THEN AlternativeTable_from_matrix(alternatives)
                 ELSE AlternativeTable_new(alternatives)
        made  == [k \in DOMAIN params |->
                    from_params(params[k][1], params[k][2], params[k][3])]
    IN  IF ~table.ok THEN Panic(table.msg)
        ELSE IF \E k \in DOMAIN made : ~made[k].ok
        THEN Panic(made[CHOOSE k \in DOMAIN made :
                        ~made[k].ok /\ \A j \in 1..(k - 1) : made[j].ok].msg)
        ELSE PrometheeProblem_new(table, [k \in DOMAIN made |-> made[k].gc], w)

---------------------------------------------------------------------------
(* Inputs *)

\* the sequences of length 0..m over S
RECURSIVE SeqsUpTo(_, _)
SeqsUpTo(S, m) ==
    IF m = 0 THEN {<<>>}
    ELSE LET shorter == SeqsUpTo(S, m - 1)
         IN  shorter \cup {Append(s, x) : s \in shorter, x \in S}

\* the sequences of length 0..m of pairwise different elements of S
RECURSIVE InjSeqsUpTo(_, _)
InjSeqsUpTo(S, m) ==
    IF m = 0 THEN {<<>>}
    ELSE LET shorter == InjSeqsUpTo(S, m - 1)
         IN  shorter \cup UNION {{Append(s, x) :
                                    x \in {y \in S : \A i \in 1..Len(s) : s[i] # y}} :
                                  s \in shorter}

\* Rows of the tables of Spec: the alternatives of the tests of lib.rs
\* (A, B, C of test_solve and C of test_solve_2), a row with one performance
\* only and a row with none
RowPool == {<<3, 1>>, <<2, 4>>, <<2, 3>>, <<0, 5>>, <<2>>, <<>>}

\* Arguments of from_params in Spec: the functions of test_solve, the two
\* other families and a family from_params refuses
ParamPool ==
    {<<"Usual", 0, 0>>, <<"U-Shape", 0, 2>>, <<"V-Shape", 0, 3>>,
     <<"Linear", 1, 3>>, <<"Level", 1, 3>>}

\* Input weights of Spec: the weights of test_solve and zero
WeightPool == {0, 3, 7}

\* the numbers of criteria of the rows
RowLens == {Len(r) : r \in RowPool}
MaxRowLen == CHOOSE m \in RowLens : \A l \in RowLens : l <= m

\* the tables of Spec hold up to MaxN pairwise different rows
TablesIn == InjSeqsUpTo(RowPool, MaxN)
ParamsIn == SeqsUpTo(ParamPool, MaxRowLen)
WeightsIn == SeqsUpTo(WeightPool, MaxRowLen)

\* Inputs of SpecFlow: one criterion, every column over 0..MaxVal, every
\* function with thresholds in 0..MaxThr, a zero or a positive weight
FlowTablesIn == SeqsUpTo({<<v>> : v \in 0..MaxVal}, MaxN)
FlowParamsIn ==
    {<<<<"Usual", 0, 0>>>>}
    \cup {<<<<"U-Shape", 0, p>>>> : p \in 0..MaxThr}
    \cup {<<<<"V-Shape", 0, p>>>> : p \in 0..MaxThr}
    \cup {<<<<"Linear", q0, p>>>> : q0 \in 0..MaxThr, p \in 0..MaxThr}
FlowWeightsIn == {<<0>>, <<1>>}

---------------------------------------------------------------------------
(* The state machine *)

\* no call of normalisation is in progress
NoCall == [gc |-> Usual, d |-> 0, out |-> R(0), done |-> TRUE]

Init ==
    /\ pc = "start"
    /\ panic_msg = ""
    /\ weights_arg = <<>>
    /\ n = 0
    /\ q = 0
    /\ alt_table = <<>>
    /\ criteria_direction = <<>>
    /\ argsorted_eval_matrix = <<>>
    /\ generalized_criteria = <<>>
    /\ weights = <<>>
    /\ result = NoResult
    /\ ranked = <<>>
    /\ norm = NoCall

\* construction of a problem from the inputs of Spec
New ==
    /\ pc = "start"
    /\ \E alternatives \in TablesIn, via_matrix \in BOOLEAN,
          params \in ParamsIn, w \in WeightsIn :
          Construct(alternatives, via_matrix, params, w)

\* construction of a single-criterion problem from the inputs of SpecFlow
FlowNew ==
    /\ pc = "start"
    /\ \E alternatives \in FlowTablesIn, via_matrix \in BOOLEAN,
          params \in FlowParamsIn, w \in FlowWeightsIn :
          Construct(alternatives, via_matrix, params, w)

\* PrometheeProblem::solve
Solve ==
    /\ pc = "built"
    /\ result' = solve(alt_table, n, q, generalized_criteria, argsorted_eval_matrix, weights)
    /\ pc' = "solved"
    /\ UNCHANGED <<panic_msg, weights_arg, n, q, alt_table, criteria_direction,
                   argsorted_eval_matrix, generalized_criteria, weights, ranked, norm>>

\* Promethee2Result::ranked_alts on the result of solve
RankedAlts ==
    /\ pc = "solved"
    /\ IF RankedAltsPanics(result)
       THEN Panic("called Option::unwrap() on a None value")
       ELSE /\ ranked' = ranked_alts(result)
            /\ pc' = "ranked"
            /\ UNCHANGED <<panic_msg, weights_arg, n, q, alt_table, criteria_direction,
                           argsorted_eval_matrix, generalized_criteria, weights, result,
                           norm>>

Next == New \/ Solve \/ RankedAlts

Spec == Init /\ [][Next]_vars

FlowNext == FlowNew \/ Solve \/ RankedAlts

SpecFlow == Init /\ [][FlowNext]_vars

\* the criteria and the differences normalisation is called with
NormCriteriaIn ==
    {Usual} \cup {UShape(p) : p \in 0..MaxThr} \cup {VShape(p) : p \in 0..MaxThr}
            \cup {Linear(q0, p) : q0 \in 0..MaxThr, p \in 0..MaxThr}

NormDiffsIn == (0 - MaxVal - 1)..(MaxVal + 1)

\* a criterion and a difference, before the call
NormInit ==
    /\ pc = "start"
    /\ panic_msg = ""
    /\ weights_arg = <<>>
    /\ n = 0
    /\ q = 0
    /\ alt_table = <<>>
    /\ criteria_direction = <<>>
    /\ argsorted_eval_matrix = <<>>
    /\ generalized_criteria = <<>>
    /\ weights = <<>>
    /\ result = NoResult
    /\ ranked = <<>>
    /\ norm \in {[gc |-> gc, d |-> d, out |-> R(0), done |-> FALSE] :
                    gc \in NormCriteriaIn, d \in NormDiffsIn}

\* GeneralizedCriterion::normalisation(d)
Normalisation ==
    /\ ~norm.done
    /\ norm' = [norm EXCEPT !.out = normalisation(norm.gc, norm.d), !.done = TRUE]
    /\ UNCHANGED <<pc, panic_msg, weights_arg, n, q, alt_table, criteria_direction,
                   argsorted_eval_matrix, generalized_criteria, weights, result, ranked>>

NormNext == Normalisation

SpecNorm == NormInit /\ [][NormNext]_vars

---------------------------------------------------------------------------
(* The state machine of a table that is mutated, built into a problem and *)
(* shifted                                                                 *)

\* the tables (n x q), direction vectors, preference functions and weights
OpsShapes == {<<2, 2>>, <<3, 1>>}

OpsTablesIn ==
    {<<>>} \cup UNION {[1..sh[1] -> [1..sh[2] -> 0..MaxPerf]] : sh \in OpsShapes}

OpsValuesIn == (0 - MaxPerf)..MaxPerf

OpsShiftsIn == {0 - 1, 1}

OpsParamsIn ==
    {<<Usual, VShape(2)>>, <<Linear(1, 1), Usual>>, <<VShape(1), Linear(0, 2)>>,
     <<Usual>>, <<VShape(2)>>, <<Linear(1, 1)>>}

OpsWeightsIn == {<<1>>, <<1, 3>>}

\* the performances of the table are within the range the model explores
InRange(alternatives) ==
    \A i \in 1..Len(alternatives) : \A k \in 1..Len(alternatives[i]) :
        alternatives[i][k] \in OpsValuesIn

\* the table t replaces the one held by the caller, or the call has panicked
TableStep(t) ==
    IF ~t.ok THEN Panic(t.msg)
    ELSE /\ InRange(t.alternatives)
         /\ alt_table' = t.alternatives
         /\ criteria_direction' = t.criteria_direction
         /\ UNCHANGED <<pc, panic_msg, weights_arg, n, q, argsorted_eval_matrix,
                        generalized_criteria, weights, result, ranked, norm>>

\* AlternativeTable::new / from_matrix: the caller holds a table
TableNew ==
    /\ pc = "start"
    /\ \E alternatives \in OpsTablesIn, via_matrix \in BOOLEAN :
          LET t == IF via_matrix THEN AlternativeTable_from_matrix(alternatives)
                   ELSE AlternativeTable_new(alternatives)
          IN  IF ~t.ok THEN Panic(t.msg)
              ELSE /\ pc' = "table"
                   /\ alt_table' = t.alternatives
                   /\ criteria_direction' = t.criteria_direction
                   /\ UNCHANGED <<panic_msg, weights_arg, n, q, argsorted_eval_matrix,
                                  generalized_criteria, weights, result, ranked, norm>>

WithCriteriaDirectionsOn(arg) ==
    /\ pc = "table"
    /\ TableStep(with_criteria_directions(alt_table, criteria_direction, arg))

WithCriteriaDirections ==
    /\ pc = "table"
    /\ \E arg \in [1..Table_q(alt_table) -> {"Min", "Max"}] : WithCriteriaDirectionsOn(arg)

SetCriterionDirection ==
    /\ pc = "table"
    /\ \E k \in 1..(Table_q(alt_table) + 1), direction \in {"Min", "Max"} :
          TableStep(set_criterion_direction(alt_table, criteria_direction, k, direction))

SwapCriteriaDirectionOn(k) ==
    /\ pc = "table"
    /\ TableStep(swap_criteria_direction(alt_table, criteria_direction, k))

SwapCriteriaDirection ==
    /\ pc = "table"
    /\ \E k \in 1..(Table_q(alt_table) + 1) : SwapCriteriaDirectionOn(k)

SetPerformance ==
    /\ pc = "table"
    /\ \E i \in 1..(Table_n(alt_table) + 1), k \in 1..(Table_q(alt_table) + 1),
          val \in OpsValuesIn :
          TableStep(set_performance(alt_table, criteria_direction, i, k, val))

ShiftPerformance ==
    /\ pc = "table"
    /\ \E i \in 1..(Table_n(alt_table) + 1), k \in 1..(Table_q(alt_table) + 1),
          shift \in OpsShiftsIn :
          TableStep(shift_performance(alt_table, criteria_direction, i, k, shift))

\* PrometheeProblem::new on the table the caller holds
ProblemNew ==
    /\ pc = "table"
    /\ \E gcs \in OpsParamsIn, w \in OpsWeightsIn :
          PrometheeProblem_new(Table(alt_table, criteria_direction), gcs, w)

\* PrometheeProblem::shift_eval(k, i, shift); a result of an earlier solve()
\* is dropped by the caller
ShiftEvalOn(k, i, shift) ==
    /\ pc \in {"built", "solved"}
    /\ LET t == shift_performance(alt_table, criteria_direction, i, k, shift)
       IN  IF ~t.ok THEN Panic(t.msg)
           ELSE IF k \notin 1..Len(argsorted_eval_matrix)
           THEN Panic(IF n >= 2 THEN "called Option::unwrap() on a None value"
                      ELSE "index out of bounds")
           ELSE /\ InRange(t.alternatives)
                /\ alt_table' = t.alternatives
                /\ argsorted_eval_matrix' \in
                       argsort_evals(t.alternatives, argsorted_eval_matrix, k)
                /\ pc' = "built"
                /\ result' = NoResult
                /\ UNCHANGED <<panic_msg, weights_arg, n, q, criteria_direction,
                               generalized_criteria, weights, ranked, norm>>

ShiftEval ==
    \E k \in 1..(q + 1), i \in 1..(n + 1), shift \in OpsShiftsIn : ShiftEvalOn(k, i, shift)

OpsNext ==
    \/ TableNew
    \/ WithCriteriaDirections
    \/ SetCriterionDirection
    \/ SwapCriteriaDirection
    \/ SetPerformance
    \/ ShiftPerformance
    \/ ProblemNew
    \/ ShiftEval
    \/ Solve

SpecOps == Init /\ [][OpsNext]_vars

---------------------------------------------------------------------------
(* Properties *)

Constructed == pc \in {"built", "solved", "ranked"}
Solved == pc \in {"solved", "ranked"}

\* the thresholds of gc are those the data model allows
ValidThresholds(gc) == gc.q >= 0 /\ gc.p >= 0 /\ gc.q <= gc.p

\* the flows of the slow algorithm for criterion k of the current problem
SlowFlows(k, gc) == slow_unicriterion_flows(dist_mat(criterion(alt_table, k)), n, gc)

RECURSIVE ISum(_)
ISum(s) == IF s = <<>> THEN 0 ELSE s[1] + ISum(Tail(s))

\* C1: for every VShape or Linear criterion with valid thresholds (q <= p)
\* and n >= 2, the flows solve() obtained from the fast algorithm are the
\* flows of the slow algorithm on the same column.
C1_FastEqualsSlow ==
    (Solved /\ n >= 2) =>
        \A k \in 1..q :
            (UsesFastAlgorithm(generalized_criteria[k])
             /\ ValidThresholds(generalized_criteria[k])) =>
                /\ result.unicrit_positive_flows[k] = SlowFlows(k, generalized_criteria[k])[1]
                /\ result.unicrit_negative_flows[k] = SlowFlows(k, generalized_criteria[k])[2]

\* the weighted sum over the criteria of the unicriterion flows of alternative i
WeightedSum(unicrit, i) == RSum([k \in 1..q |-> RMul(weights[k], unicrit[k][i])])

TestSolveProblem ==
    /\ alt_table = <<<<3, 1>>, <<2, 4>>, <<2, 3>>>>
    /\ weights_arg = <<3, 7>>
    /\ generalized_criteria = <<VShape(3), Linear(1, 3)>>

\* C2: solve() returns, per criterion and in criterion order, one positive and
\* one negative flow vector of length n, and the aggregated flows are the
\* sums of the unicriterion flows weighted by the normalized weights; on the
\* problem of test_solve the net flows are -0.425, 0.300, 0.125.
C2_SolveAggregates ==
    Solved =>
        /\ Len(result.unicrit_positive_flows) = q
        /\ Len(result.unicrit_negative_flows) = q
        /\ \A k \in 1..q :
              LET uf == unicriterion_flows(alt_table, n, generalized_criteria,
                                           argsorted_eval_matrix, k)
              IN  /\ DOMAIN result.unicrit_positive_flows[k] = 1..n
                  /\ DOMAIN result.unicrit_negative_flows[k] = 1..n
                  /\ result.unicrit_positive_flows[k] = uf[1]
                  /\ result.unicrit_negative_flows[k] = uf[2]
        /\ DOMAIN result.positive_flows = 1..n
        /\ DOMAIN result.negative_flows = 1..n
        /\ \A i \in 1..n :
              /\ result.positive_flows[i] = WeightedSum(result.unicrit_positive_flows, i)
              /\ result.negative_flows[i] = WeightedSum(result.unicrit_negative_flows, i)
        /\ TestSolveProblem =>
              net_flows(result) = <<Rat(-425, 1000), Rat(300, 1000), Rat(125, 1000)>>

C2_Witness ==
    /\ pc = "solved"
    /\ TestSolveProblem
    /\ result.positive_flows[1] = Rat(1, 10)
    /\ result.negative_flows[1] = Rat(525, 1000)

\* C3: after a successful construction from positive input weights the stored
\* weights sum to 1 and each is its input weight divided by the sum of the
\* input weights.
C3_WeightsNormalized ==
    (Constructed /\ \A k \in DOMAIN weights_arg : weights_arg[k] > 0) =>
        /\ DOMAIN weights = DOMAIN weights_arg
        /\ weights # <<>> => RSum(weights) = R(1)
        /\ \A k \in DOMAIN weights : weights[k] = Rat(weights_arg[k], ISum(weights_arg))

C3_Witness ==
    /\ pc = "built"
    /\ weights_arg = <<3, 7>>
    /\ weights = <<Rat(3, 10), Rat(7, 10)>>

NoUndefinedNetFlow(res) == \A i \in DOMAIN res.positive_flows : ~IsNaN(net_flows(res)[i])

\* C4: on a result without undefined net flow, ranked_alts() is a permutation
\* of the alternatives along which the net flow never increases.
C4_RankingIsDescendingPermutation ==
    (pc = "ranked" /\ NoUndefinedNetFlow(result)) =>
        /\ Len(ranked) = n
        /\ {ranked[a] : a \in 1..Len(ranked)} = 1..n
        /\ \A a \in 1..(Len(ranked) - 1) :
              RLe(net_flows(result)[ranked[a + 1]], net_flows(result)[ranked[a]])

C4_Witness ==
    /\ pc = "ranked"
    /\ n = 3
    /\ NoUndefinedNetFlow(result)
    /\ ranked = <<2, 3, 1>>
    /\ RLt(net_flows(result)[3], net_flows(result)[2])
    /\ RLt(net_flows(result)[1], net_flows(result)[3])

\* two positions of the ranking that hold alternatives of equal net flow
TiedPositions ==
    {ab \in (1..Len(ranked)) \X (1..Len(ranked)) :
        /\ ab[1] < ab[2]
        /\ ~IsNaN(net_flows(result)[ranked[ab[1]]])
        /\ net_flows(result)[ranked[ab[1]]] = net_flows(result)[ranked[ab[2]]]}

C6_DegenerateLinearIsUShape ==
    (Solved /\ n >= 2) =>
        \A k \in 1..q :
            (generalized_criteria[k].type = "Linear"
             /\ ValidThresholds(generalized_criteria[k])
             /\ generalized_criteria[k].q = generalized_criteria[k].p) =>
                /\ \A i \in 1..n : /\ IsFinite(result.unicrit_positive_flows[k][i])
                                   /\ IsFinite(result.unicrit_negative_flows[k][i])
                /\ result.unicrit_positive_flows[k]
                      = SlowFlows(k, UShape(generalized_criteria[k].p))[1]
                /\ result.unicrit_negative_flows[k]
                      = SlowFlows(k, UShape(generalized_criteria[k].p))[2]

\* C7: a criterion list that contains a UShape criterion does not abort the
\* construction: the match of PrometheeProblem::new never ends in its
\* unimplemented!() arm.
C7_UShapeIsConstructed ==
    ~(pc = "panic" /\ panic_msg = "not implemented: Not implemented for this criterion")

\* C8: no constructed problem holds a Linear criterion with q > p.
C8_NoLinearWithQAboveP ==
    Constructed =>
        \A k \in 1..Len(generalized_criteria) :
            generalized_criteria[k].type = "Linear" =>
                generalized_criteria[k].q <= generalized_criteria[k].p

\* C9: a weight vector whose entries are all zero is rejected, and no
\* constructed problem stores an undefined weight.
C9_ZeroWeightsRejected ==
    Constructed =>
        /\ ~(weights_arg # <<>> /\ \A k \in DOMAIN weights_arg : weights_arg[k] = 0)
        /\ \A k \in DOMAIN weights : ~IsNaN(weights[k])

\* C10: no problem is constructed from an empty alternative list, from rows
\* of different lengths, from a number of preference functions other than q
\* or from a number of weights other than q.
C10_MalformedInputFails ==
    Constructed =>
        /\ alt_table # <<>>
        /\ \A i \in 1..Len(alt_table) : Len(alt_table[i]) = Len(alt_table[1])
        /\ n = Len(alt_table)
        /\ q = Len(alt_table[1])
        /\ Len(generalized_criteria) = q
        /\ Len(weights_arg) = q
        /\ Len(weights) = q

C10_Witness ==
    /\ pc = "panic"
    /\ panic_msg = "Wrong number of weights given"
    /\ alt_table = <<>>
    /\ weights = <<>>

\* C11: for valid thresholds, normalisation(d) is the piecewise definition of
\* its variant (Usual: 1 if d > 0 else 0; UShape{p}: 0 if d < p else 1;
\* VShape{p}: 0 if d < 0, d/p if 0 <= d < p, 1 if d >= p; Linear{q,p}: 0 if
\* d < q, (d-q)/(p-q) if q <= d < p, 1 if d >= p), it is a finite number of
\* [0,1], and no division by zero happens when q = p or p = 0.
C11_NormalisationIsPiecewise ==
    (norm.done /\ norm # NoCall /\ ValidThresholds(norm.gc)) =>
        LET gc == norm.gc
            d == norm.d
            out == norm.out
        IN  /\ gc.type = "Usual" => out = R(IF d > 0 THEN 1 ELSE 0)
            /\ gc.type = "UShape" => out = R(IF d < gc.p THEN 0 ELSE 1)
            /\ gc.type = "VShape" =>
                  /\ d < 0 => out = R(0)
                  /\ (0 <= d /\ d < gc.p) => RMul(out, R(gc.p)) = R(d)
                  /\ d >= gc.p => out = R(1)
            /\ gc.type = "Linear" =>
                  /\ d < gc.q => out = R(0)
                  /\ (gc.q <= d /\ d < gc.p) => RMul(out, R(gc.p - gc.q)) = R(d - gc.q)
                  /\ d >= gc.p => out = R(1)
            /\ IsFinite(out)
            /\ RLe(R(0), out) /\ RLe(out, R(1))

\* normalisation has returned 1 for Linear{1,1} at d = 1, where p - q = 0
C11_Witness ==
    /\ norm.done
    /\ norm.gc = Linear(1, 1)
    /\ norm.d = 1
    /\ norm.out = R(1)

FlippedFlows(k) ==
    LET t == swap_criteria_direction(alt_table, criteria_direction, k)
    IN  {unicriterion_flows(t.alternatives, n, generalized_criteria, am, k) :
            am \in ArgsortedEvalMatrices(t.alternatives, generalized_criteria, q)}

\* C13: solving the problem built from the table with the direction of
\* criterion k flipped gives, for criterion k, the negative flows of the
\* unflipped problem as positive flows and its positive flows as negative flows.
C13_FlipSwapsFlows ==
    pc = "solved" =>
        \A k \in 1..q : \A f \in FlippedFlows(k) :
            /\ f[1] = result.unicrit_negative_flows[k]
            /\ f[2] = result.unicrit_positive_flows[k]

\* C14: when with_criteria_directions indicates a criterion as Min on a table
\* that held it as Max, the evaluations of that criterion are multiplied by -1,
\* so that the stored column is one to be maximized.
C14_MinIsNegatedAtBuild ==
    [][pc = "table" =>
        \A arg \in [1..Table_q(alt_table) -> {"Min", "Max"}] :
            WithCriteriaDirectionsOn(arg) =>
                \A k \in 1..Table_q(alt_table) :
                    (criteria_direction[k] = "Max" /\ arg[k] = "Min") =>
                        \A i \in 1..Len(alt_table) :
                            alt_table'[i][k] = 0 - alt_table[i][k]]_vars

\* the cache c is a permutation of the alternatives along which the column fks
\* is non-decreasing
IsAscendingPermutation(c, fks) ==
    /\ Len(c) = Len(fks)
    /\ {c[a] : a \in 1..Len(c)} = 1..Len(fks)
    /\ \A a \in 1..Len(c) : \A b \in 1..Len(c) : a < b => fks[c[a]] <= fks[c[b]]

\* C15: after construction and after any sequence of shift_eval calls, every
\* sort cache that is present for a criterion k is a permutation of the
\* alternatives along which the current performances on criterion k are
\* non-decreasing, and every VShape or Linear criterion has such a cache.
C15_CachesAreSorted ==
    pc \in {"built", "solved"} =>
        /\ Len(argsorted_eval_matrix) = q
        /\ \A k \in 1..q :
              /\ argsorted_eval_matrix[k].some =>
                    IsAscendingPermutation(argsorted_eval_matrix[k].v,
                                           criterion(alt_table, k))
              /\ generalized_criteria[k].type \in {"VShape", "Linear"} =>
                    argsorted_eval_matrix[k].some

\* shift_eval has been called on both criteria (the Usual one has a cache) and
\* the cache of the Linear criterion lists the second alternative first
C15_Witness ==
    /\ pc = "built"
    /\ generalized_criteria = <<Linear(1, 1), Usual>>
    /\ argsorted_eval_matrix[2].some
    /\ argsorted_eval_matrix[1] = Some(<<2, 1>>)
    /\ alt_table[2][1] < alt_table[1][1]

\* C16: shift_eval(k, i, delta) with valid k and i adds delta to the
\* performance of alternative i on criterion k and changes nothing else in the
\* table; it recomputes the sort cache of criterion k only and leaves the
\* other caches, the weights, the preference functions, n and q unchanged.
C16_ShiftEvalFrame ==
    [][(pc \in {"built", "solved"}) =>
        \A k \in 1..q : \A i \in 1..n : \A shift \in OpsShiftsIn :
            ShiftEvalOn(k, i, shift) =>
                /\ pc' = "built"
                /\ Len(alt_table') = Len(alt_table)
                /\ \A a \in 1..Len(alt_table) :
                      /\ Len(alt_table'[a]) = Len(alt_table[a])
                      /\ \A j \in 1..Len(alt_table[a]) :
                            alt_table'[a][j] =
                                IF a = i /\ j = k THEN alt_table[a][j] + shift
                                ELSE alt_table[a][j]
                /\ criteria_direction' = criteria_direction
                /\ Len(argsorted_eval_matrix') = Len(argsorted_eval_matrix)
                /\ \A j \in 1..q :
                      j # k => argsorted_eval_matrix'[j] = argsorted_eval_matrix[j]
                /\ argsorted_eval_matrix'[k].some
                /\ IsAscendingPermutation(argsorted_eval_matrix'[k].v,
                                          criterion(alt_table', k))
                /\ weights' = weights
                /\ generalized_criteria' = generalized_criteria
                /\ n' = n
                /\ (q' = q)]_vars

\* shift_eval has been called on the Usual criterion of a two-criteria
\* problem: it has a cache, and a performance is below those of the inputs
C16_Witness ==
    /\ pc = "built"
    /\ generalized_criteria = <<Usual, VShape(2)>>
    /\ criteria_direction = <<"Max", "Max">>
    /\ argsorted_eval_matrix[1] = Some(<<1, 2>>)
    /\ alt_table = <<<<0 - 1, 0>>, <<0, 0>>>>

\* the table of this state is rectangular
Rectangular == \A i \in 1..Len(alt_table) : Len(alt_table[i]) = Len(alt_table[1])

\* C17: in every state reached from a constructed table by set_performance,
\* shift_performance, swap_criteria_direction and shift_eval calls, every
\* alternative's performance vector has length q and the number of
\* alternatives is unchanged.
C17_ShapeIsKept ==
    /\ [](pc \in {"table", "built", "solved"} => (alt_table # <<>> /\ Rectangular))
    /\ [](pc \in {"built", "solved"} =>
            (n = Len(alt_table) /\ \A i \in 1..n : Len(alt_table[i]) = q))
    /\ [][(pc \in {"table", "built", "solved"}) =>
            (/\ Len(alt_table') = Len(alt_table)
             /\ \A i \in 1..Len(alt_table) :
                   Len(alt_table'[i]) = Len(alt_table[i]))]_vars

\* a table of three alternatives was swapped to Min, built into a problem,
\* shifted (the Usual criterion has a cache) and solved
C17_Witness ==
    /\ pc = "solved"
    /\ n = 3
    /\ q = 1
    /\ criteria_direction = <<"Min">>
    /\ generalized_criteria = <<Usual>>
    /\ argsorted_eval_matrix[1].some
    /\ alt_table = <<<<0 - 1>>, <<0>>, <<1>>>>

\* C18: the flow vectors of the fast algorithm do not depend on the order in
\* which alternatives with identical performance appear in the ascending
\* permutation: for valid thresholds q <= p, q = p included, every ascending
\* permutation gives the vectors solve() has returned.
C18_TieOrderIndependent ==
    Solved =>
        \A k \in 1..q :
            LET gc == generalized_criteria[k]
                fks == criterion(alt_table, k)
            IN  (UsesFastAlgorithm(gc) /\ ValidThresholds(gc)) =>
                    \A s \in SortUnstableBy(fks) :
                        /\ fast_pos_unicriterion_flow(fks, n, gc.q, gc.p, s)
                               = result.unicrit_positive_flows[k]
                        /\ fast_neg_unicriterion_flow(fks, n, gc.q, gc.p, s)
                               = result.unicrit_negative_flows[k]

\* C19: for every criterion of a solved problem with n >= 2 and valid
\* thresholds, the unicriterion positive flows and the unicriterion negative
\* flows have the same sum, and the net flows sum to zero.
C19_FlowsBalance ==
    (Solved /\ n >= 2 /\ \A k \in 1..q : ValidThresholds(generalized_criteria[k])) =>
        /\ \A k \in 1..q :
              RSum(result.unicrit_positive_flows[k]) = RSum(result.unicrit_negative_flows[k])
        /\ RSum(net_flows(result)) = R(0)

\* the flow x is a number of [0,1]
InUnitInterval(x) == IsFinite(x) /\ RLe(R(0), x) /\ RLe(x, R(1))

\* C20: for n >= 2, positive weights and valid thresholds (p = 0 and q = p
\* included), every unicriterion flow and every aggregated flow returned by
\* solve() lies in [0,1].
C20_FlowsInUnitInterval ==
    (/\ Solved
     /\ n >= 2
     /\ \A k \in 1..q : weights_arg[k] > 0 /\ ValidThresholds(generalized_criteria[k])) =>
        /\ \A k \in 1..q : \A i \in 1..n :
              /\ InUnitInterval(result.unicrit_positive_flows[k][i])
              /\ InUnitInterval(result.unicrit_negative_flows[k][i])
        /\ \A i \in 1..n :
              /\ InUnitInterval(result.positive_flows[i])
              /\ InUnitInterval(result.negative_flows[i])

====
